---- MODULE Spec2Model ----
(***************************************************************************)
(* Finite-field arithmetic (ecc/field_element.rs) and the elliptic-curve   *)
(* group law (ecc/point.rs) of bitcoin-proto-rs.                           *)
(*                                                                         *)
(* Values are i32.  A Result<T, String> is a record [tag, val] with tag    *)
(* "Ok" or "Err"; a panic (arithmetic overflow with overflow checks on,    *)
(* unwrap of None) is the third tag "Panic".  An Option<T> is a sequence   *)
(* of length 0 (None) or 1 (Some).                                         *)
(***************************************************************************)
EXTENDS Integers, Sequences, FiniteSets, TLC

\* ------------------------------------------------------------------ bounds
MaxNum == 3
MaxExp == 4
MaxFeeds == 1
MaxNeg == 1
MaxCoef == 2

\* i32::MAX, the width of FieldElement.num and FieldElement.prime
MaxI32 == 2147483647
MinI32 == (-MaxI32) - 1

\* moduli and raw integers handed to FieldElement::new by the field harness
FieldPrimes == {2, 3, 5, 46349}
RawNums == ((-MaxNum)..MaxNum) \cup {46348}
Exps == (-1)..MaxExp
\* moduli used by the point harness
PointPrimes == {2, 3, 5}

VARIABLES overflow_checks, lhs, rhs, fop, fexp, fres, feeds,
          ca, cb, points, P, Q, R, pop, pres

fvars == <<lhs, rhs, fop, fexp, fres, feeds>>
pvars == <<ca, cb, points, P, Q, R, pop, pres>>
vars == <<overflow_checks, lhs, rhs, fop, fexp, fres, feeds,
          ca, cb, points, P, Q, R, pop, pres>>

\* ------------------------------------------------------------ Result<T,E>
Ok(v) == [tag |-> "Ok", val |-> v]
Err(m) == [tag |-> "Err", val |-> m]
Panic(m) == [tag |-> "Panic", val |-> m]
IsOk(r) == r.tag = "Ok"
\* the `?` operator: continue with the value of an Ok, return anything else
Bind(r, F(_)) == IF IsOk(r) THEN F(r.val) ELSE r

\* Option<T>
None == <<>>
Some(v) == <<v>>
is_some(o) == Len(o) = 1
is_none(o) == Len(o) = 0

\* ------------------------------------------------------- i32 arithmetic
Abs(a) == IF a < 0 THEN -a ELSE a

\* Rust `a % m` for m > 0: the remainder takes the sign of the dividend
Rem(a, m) == IF a >= 0 THEN a % m ELSE -((m - (a % m)) % m)

\* Rust `a / b` for b /= 0: the quotient truncates toward zero
TruncDiv(a, b) ==
    LET q == Abs(a) \div Abs(b)
    IN IF (a >= 0) = (b >= 0) THEN q ELSE -q

\* the mathematical product a * b does not fit an i32
MulOverflows(a, b) ==
    /\ a /= 0
    /\ b /= 0
    /\ \/ a = MinI32
       \/ b = MinI32
       \/ /\ Abs(a) > MaxI32 \div Abs(b)
          /\ ~ /\ (a < 0) /= (b < 0)
               /\ Abs(a) = (MaxI32 \div Abs(b)) + 1
               /\ MaxI32 % Abs(b) = Abs(b) - 1

\* two's-complement wrapping addition
WrapAdd(a, b) ==
    IF a > 0 /\ b > 0 /\ a > MaxI32 - b
    THEN ((a - MaxI32) - 1) + ((b - MaxI32) - 1)
    ELSE IF a < 0 /\ b < 0 /\ a < MinI32 - b
    THEN ((a + MaxI32) + 1) + ((b + MaxI32) + 1)
    ELSE a + b

WrapNeg(a) == IF a = MinI32 THEN MinI32 ELSE -a

RECURSIVE WrapMulNat(_, _)
WrapMulNat(a, n) ==
    IF n = 0 THEN 0
    ELSE WrapAdd(IF n % 2 = 1 THEN a ELSE 0,
                 WrapMulNat(WrapAdd(a, a), n \div 2))

\* two's-complement wrapping multiplication
WrapMul(a, b) ==
    IF b >= 0 THEN WrapMulNat(a, b)
    ELSE IF b = MinI32 THEN (IF a % 2 = 0 THEN 0 ELSE MinI32)
    ELSE WrapMulNat(WrapNeg(a), -b)

\* `a * b` on i32: panics with overflow checks (debug profile), wraps
\* without them (release profile)
Mul32(a, b, oc) ==
    IF ~MulOverflows(a, b) THEN Ok(a * b)
    ELSE IF oc THEN Panic("attempt to multiply with overflow")
    ELSE Ok(WrapMul(a, b))

\* ------------------------------------------------------- field_element.rs
FE(n, p) == [num |-> n, prime |-> p]

FieldElement_new(num, prime) ==
    LET n == Rem(num, prime)
    IN IF n >= prime THEN Err("Num not in field range")
       ELSE Ok(FE(n, prime))

\* one round of the `while exp > 0` loop: the new result and base
mod_exp_step(result, base, exp, modulus, oc) ==
    Bind(IF exp % 2 = 1 THEN Mul32(result, base, oc) ELSE Ok(result),
         LAMBDA m1 :
    Bind(Mul32(base, base, oc), LAMBDA m2 :
        Ok(<<IF exp % 2 = 1 THEN Rem(m1, modulus) ELSE result,
             Rem(m2, modulus)>>)))

RECURSIVE mod_exp_loop(_, _, _, _, _)
mod_exp_loop(result, base, exp, modulus, oc) ==
    IF ~(exp > 0) THEN Ok(result)
    ELSE Bind(mod_exp_step(result, base, exp, modulus, oc), LAMBDA rb :
             mod_exp_loop(rb[1], rb[2], exp \div 2, modulus, oc))

mod_exp(base, exp, modulus, oc) ==
    mod_exp_loop(1, Rem(base, modulus), exp, modulus, oc)

field_power(self, exponent, oc) ==
    Bind(mod_exp(self.num, exponent % (self.prime - 1), self.prime, oc),
         LAMBDA num : FieldElement_new(num, self.prime))

\* the `if num < 0 { num += prime }` normalisation shared by the operators.
\* (Sums and differences of two residues stay far inside i32 for every modulus
\* used here; only products can overflow, see Mul32.)
Normalise(num, prime) == IF num < 0 THEN num + prime ELSE num

FieldElement_add(self, other) ==
    IF self.prime /= other.prime
    THEN Err("Can't add two numbers from different Fields")
    ELSE FieldElement_new(
             Normalise(Rem(self.num + other.num, self.prime), self.prime),
             self.prime)

FieldElement_sub(self, other) ==
    IF self.prime /= other.prime
    THEN Err("Can't add two numbers from different Fields")
    ELSE FieldElement_new(
             Normalise(Rem(self.num - other.num, self.prime), self.prime),
             self.prime)

FieldElement_div(self, other, oc) ==
    IF self.prime /= other.prime
    THEN Err("Can't divide two numbers from different Fields")
    ELSE Bind(mod_exp(other.num, self.prime - 2, self.prime, oc), LAMBDA inv :
         Bind(Mul32(self.num, inv, oc), LAMBDA prod :
             FieldElement_new(Normalise(Rem(prod, self.prime), self.prime),
                              self.prime)))

FieldElement_mul(self, other, oc) ==
    IF other.num >= self.prime
    THEN Err("All numbers should belong to same set")
    ELSE Bind(Mul32(self.num, other.num, oc), LAMBDA res :
             FieldElement_new(Normalise(Rem(res, self.prime), self.prime),
                              self.prime))

\* ------------------------------------------------------------ point.rs
Pt(a, b, x, y) == [a |-> a, b |-> b, x |-> x, y |-> y]
Infinity(a, b) == Pt(a, b, None, None)

\* Option::unwrap
unwrap(o) == IF is_some(o) THEN Ok(o[1])
             ELSE Panic("called Option::unwrap() on a None value")

\* the "(x,y) is not on the curve" error, which names the coordinates
NotOnCurve(x, y) ==
    Err([msg |-> "is not on the curve", x |-> x.num, y |-> y.num])

Point_new(x, y, a, b, oc) ==
    IF is_some(x) /\ is_some(y)
    THEN Bind(field_power(y[1], 2, oc), LAMBDA y2 :
         Bind(field_power(x[1], 3, oc), LAMBDA x3 :
         Bind(FieldElement_mul(a, x[1], oc), LAMBDA ax :
         Bind(FieldElement_add(ax, b), LAMBDA axb :
         Bind(FieldElement_add(x3, axb), LAMBDA rhs1 :
             IF y2 /= rhs1 THEN NotOnCurve(x[1], y[1])
             ELSE Ok(Pt(a, b, x, y)))))))
    ELSE Ok(Pt(a, b, x, y))

\* the `self.x != other.x` branch of Point::add
AddSecant(self, other, oc) ==
    Bind(unwrap(self.x), LAMBDA x1 :
    Bind(unwrap(other.x), LAMBDA x2 :
    Bind(unwrap(self.y), LAMBDA y1 :
    Bind(unwrap(other.y), LAMBDA y2 :
    Bind(FieldElement_sub(y2, y1), LAMBDA dy :
    Bind(FieldElement_sub(x2, x1), LAMBDA dx :
    Bind(FieldElement_div(dy, dx, oc), LAMBDA s :
    Bind(field_power(s, 2, oc), LAMBDA s2 :
    Bind(FieldElement_sub(s2, x1), LAMBDA t1 :
    Bind(FieldElement_sub(t1, x2), LAMBDA x3 :
    Bind(FieldElement_sub(x1, x3), LAMBDA t2 :
    Bind(FieldElement_mul(s, t2, oc), LAMBDA t3 :
    Bind(FieldElement_sub(t3, y1), LAMBDA y3 :
        Point_new(Some(x3), Some(y3), self.a, self.b, oc))))))))))))))

\* `FieldElement::new(p1 / p2, x1.prime)`: the slope of the tangent
DoublingSlope(p1, p2, prime) == FieldElement_new(TruncDiv(p1, p2), prime)

\* the final `self == other` branch of Point::add
AddDoubling(self, oc) ==
    Bind(unwrap(self.x), LAMBDA x1 :
    Bind(unwrap(self.y), LAMBDA y1 :
    Bind(field_power(x1, 2, oc), LAMBDA sq :
    Bind(DoublingSlope(3 * sq.num + self.a.num, 2 * y1.num, x1.prime),
         LAMBDA s :
    Bind(field_power(s, 2, oc), LAMBDA s2 :
    Bind(FieldElement_new(2, x1.prime), LAMBDA two :
    Bind(FieldElement_mul(two, x1, oc), LAMBDA tx :
    Bind(FieldElement_sub(s2, tx), LAMBDA x3 :
    Bind(FieldElement_sub(x1, x3), LAMBDA t2 :
    Bind(FieldElement_mul(s, t2, oc), LAMBDA t3 :
    Bind(FieldElement_sub(t3, y1), LAMBDA y3 :
        Point_new(Some(x3), Some(y3), self.a, self.b, oc))))))))))))

\* Point::add with the two identity branches returning the wrong operand
\* (the absent operand instead of the other one)
Point_add_identity_swapped(self, other, oc) ==
    IF self.a /= other.a \/ self.b /= other.b
    THEN Err("Points are not on the same curve")
    ELSE IF is_none(self.x) THEN Ok(self)
    ELSE IF is_none(other.x) THEN Ok(other)
    ELSE IF self.x = other.x /\ self.y /= other.y
    THEN Point_new(None, None, self.a, self.b, oc)
    ELSE IF self.x /= other.x THEN AddSecant(self, other, oc)
    ELSE IF self.y[1].num = 0
    THEN Point_new(None, None, self.a, self.b, oc)
    ELSE AddDoubling(self, oc)

Point_add(self, other, oc) ==
    IF self.a /= other.a \/ self.b /= other.b
    THEN IF is_some(self.x) /\ is_some(self.y)
            /\ is_some(other.x) /\ is_some(other.y)
         THEN Err("Points are not on the same curve")
         ELSE Panic("called Option::unwrap() on a None value")
    ELSE IF is_none(self.x) THEN Ok(other)
    ELSE IF is_none(other.x) THEN Ok(self)
    ELSE IF self.x = other.x /\ self.y /= other.y
    THEN Point_new(None, None, self.a, self.b, oc)
    ELSE IF self.x /= other.x THEN AddSecant(self, other, oc)
    ELSE IF self = other /\ is_none(self.y)
    THEN Panic("called Option::unwrap() on a None value")
    ELSE IF self = other /\ self.y[1].num = 0
    THEN Point_new(None, None, self.a, self.b, oc)
    ELSE IF self = other THEN AddDoubling(self, oc)
    ELSE Err("")

\* `(p + q)? + r` as a caller chains two additions
AddThen(first, r, oc) ==
    Bind(first, LAMBDA sum : Point_add(sum, r, oc))

\* ---------------------------------------------------------- field harness
\* A caller holding two FieldElements: it constructs them from raw integers,
\* applies one operator to (lhs, rhs), and may keep a successful result as an
\* operand of the next operation.
InitField ==
    /\ overflow_checks \in BOOLEAN
    /\ \E p \in FieldPrimes :
          /\ lhs = FE(0, p)
          /\ rhs = FE(0, p)
          /\ fres = FieldElement_new(0, p)
    /\ fop = "new"
    /\ fexp = 0
    /\ feeds = 0
    /\ ca = FE(0, 2)
    /\ cb = FE(0, 2)
    /\ points = {Infinity(FE(0, 2), FE(0, 2))}
    /\ P = Infinity(FE(0, 2), FE(0, 2))
    /\ Q = Infinity(FE(0, 2), FE(0, 2))
    /\ R = Infinity(FE(0, 2), FE(0, 2))
    /\ pop = "new"
    /\ pres = <<Ok(Infinity(FE(0, 2), FE(0, 2)))>>

\* let lhs = FieldElement::new(n, p).unwrap()
FNewLhs(n, p) ==
    /\ fres' = FieldElement_new(n, p)
    /\ fop' = "new"
    /\ fexp' = 0
    /\ lhs' = IF IsOk(fres') THEN fres'.val ELSE lhs
    /\ UNCHANGED <<overflow_checks, rhs, feeds>>
    /\ UNCHANGED pvars

\* let rhs = FieldElement::new(n, p).unwrap()
FNewRhs(n, p) ==
    /\ fres' = FieldElement_new(n, p)
    /\ fop' = "new"
    /\ fexp' = 0
    /\ rhs' = IF IsOk(fres') THEN fres'.val ELSE rhs
    /\ UNCHANGED <<overflow_checks, lhs, feeds>>
    /\ UNCHANGED pvars

FAdd ==
    /\ fres' = FieldElement_add(lhs, rhs)
    /\ fop' = "add"
    /\ fexp' = 0
    /\ UNCHANGED <<overflow_checks, lhs, rhs, feeds>>
    /\ UNCHANGED pvars

FSub ==
    /\ fres' = FieldElement_sub(lhs, rhs)
    /\ fop' = "sub"
    /\ fexp' = 0
    /\ UNCHANGED <<overflow_checks, lhs, rhs, feeds>>
    /\ UNCHANGED pvars

FMul ==
    /\ fres' = FieldElement_mul(lhs, rhs, overflow_checks)
    /\ fop' = "mul"
    /\ fexp' = 0
    /\ UNCHANGED <<overflow_checks, lhs, rhs, feeds>>
    /\ UNCHANGED pvars

FDiv ==
    /\ fres' = FieldElement_div(lhs, rhs, overflow_checks)
    /\ fop' = "div"
    /\ fexp' = 0
    /\ UNCHANGED <<overflow_checks, lhs, rhs, feeds>>
    /\ UNCHANGED pvars

FPower(e) ==
    /\ fres' = field_power(lhs, e, overflow_checks)
    /\ fop' = "power"
    /\ fexp' = e
    /\ UNCHANGED <<overflow_checks, lhs, rhs, feeds>>
    /\ UNCHANGED pvars

\* the caller keeps the value an operator returned and uses it as an operand
FFeedLhs ==
    /\ fop \in {"add", "sub", "mul", "div", "power"}
    /\ IsOk(fres)
    /\ feeds < MaxFeeds
    /\ lhs' = fres.val
    /\ fop' = "feed"
    /\ feeds' = feeds + 1
    /\ UNCHANGED <<overflow_checks, rhs, fexp, fres>>
    /\ UNCHANGED pvars

FFeedRhs ==
    /\ fop \in {"add", "sub", "mul", "div", "power"}
    /\ IsOk(fres)
    /\ feeds < MaxFeeds
    /\ rhs' = fres.val
    /\ fop' = "feed"
    /\ feeds' = feeds + 1
    /\ UNCHANGED <<overflow_checks, lhs, fexp, fres>>
    /\ UNCHANGED pvars

NextField ==
    \/ \E n \in RawNums, p \in FieldPrimes : FNewLhs(n, p)
    \/ \E n \in RawNums, p \in FieldPrimes : FNewRhs(n, p)
    \/ FAdd
    \/ FSub
    \/ FMul
    \/ FDiv
    \/ \E e \in Exps : FPower(e)
    \/ FFeedLhs
    \/ FFeedRhs

SpecField == InitField /\ [][NextField]_vars

\* ---------------------------------------------------------- point harness
\* A caller working on one curve (ca, cb): it constructs points from optional
\* coordinates, adds the points it holds, and may keep a sum as an operand.
\* pres is the list of results of the caller's last step.
Coords(p) == {FieldElement_new(n, p).val : n \in (-MaxNeg)..(p - 1)}
OptCoords(p) == {None} \cup {Some(c) : c \in Coords(p)}
\* arguments of a construction: both coordinates present or both absent
PairArgs(p) == {<<None, None>>}
               \cup {<<Some(x), Some(y)>> : x \in Coords(p), y \in Coords(p)}
\* the points Point::new(x, y, a, b).unwrap() gives the caller
Constructed(a, b, oc) ==
    {r.val : r \in {q \in {Point_new(xy[1], xy[2], a, b, oc) :
                                xy \in PairArgs(a.prime)} : IsOk(q)}}
CurveCoefs(p) == {n \in 0..(p - 1) : n <= MaxCoef}

\* (No product leaves i32 for the moduli of PointPrimes, so both build
\* profiles behave alike here; the debug profile of `cargo test` is fixed.)
InitPoint ==
    /\ overflow_checks = TRUE
    /\ \E p \in PointPrimes : \E an \in CurveCoefs(p), bn \in CurveCoefs(p) :
          /\ ca = FieldElement_new(an, p).val
          /\ cb = FieldElement_new(bn, p).val
    /\ points = Constructed(ca, cb, overflow_checks)
    /\ P = Infinity(ca, cb)
    /\ Q = Infinity(ca, cb)
    /\ R = Infinity(ca, cb)
    /\ pop = "new"
    /\ pres = <<Point_new(None, None, ca, cb, overflow_checks)>>
    /\ lhs = FE(0, 2)
    /\ rhs = FE(0, 2)
    /\ fres = FieldElement_new(0, 2)
    /\ fop = "new"
    /\ fexp = 0
    /\ feeds = 0

\* let r = Point::new(x, y, a, b)
PNew(x, y) ==
    /\ pres' = <<Point_new(x, y, ca, cb, overflow_checks)>>
    /\ pop' = "new"
    /\ UNCHANGED <<overflow_checks, ca, cb, points, P, Q, R>>
    /\ UNCHANGED fvars

\* the points whose coordinates were given as residues 0..p-1
InRange(pts) ==
    {pt \in pts : \A c \in {pt.x, pt.y} : is_some(c) => 0 <= c[1].num}

\* let p = <a point built by Point::new(..).unwrap()>
PLoadP(pt) ==
    /\ pres' = <<Ok(pt)>>
    /\ pop' = "new"
    /\ P' = pt
    /\ UNCHANGED <<overflow_checks, ca, cb, points, Q, R>>
    /\ UNCHANGED fvars

\* let q = <a point built by Point::new(..).unwrap()>
PLoadQ(pt) ==
    /\ pres' = <<Ok(pt)>>
    /\ pop' = "new"
    /\ Q' = pt
    /\ UNCHANGED <<overflow_checks, ca, cb, points, P, R>>
    /\ UNCHANGED fvars

\* let r = <a point built by Point::new(..).unwrap()>
PLoadR(pt) ==
    /\ pres' = <<Ok(pt)>>
    /\ pop' = "new"
    /\ R' = pt
    /\ UNCHANGED <<overflow_checks, ca, cb, points, P, Q>>
    /\ UNCHANGED fvars

\* p + q
PAdd ==
    /\ pres' = <<Point_add(P, Q, overflow_checks)>>
    /\ pop' = "add"
    /\ UNCHANGED <<overflow_checks, ca, cb, points, P, Q, R>>
    /\ UNCHANGED fvars

\* p + q and q + p
PCommute ==
    /\ pres' = <<Point_add(P, Q, overflow_checks),
                 Point_add(Q, P, overflow_checks)>>
    /\ pop' = "commute"
    /\ UNCHANGED <<overflow_checks, ca, cb, points, P, Q, R>>
    /\ UNCHANGED fvars

\* (p + q)? + r and p + (q + r)?
PAssociate ==
    /\ pres' = <<AddThen(Point_add(P, Q, overflow_checks), R, overflow_checks),
                 Bind(Point_add(Q, R, overflow_checks),
                      LAMBDA qr : Point_add(P, qr, overflow_checks))>>
    /\ pop' = "assoc"
    /\ UNCHANGED <<overflow_checks, ca, cb, points, P, Q, R>>
    /\ UNCHANGED fvars

\* the caller keeps the sum p + q as its next left operand
PFeed ==
    /\ pop = "add"
    /\ IsOk(pres[1])
    /\ P' = pres[1].val
    /\ pop' = "feed"
    /\ UNCHANGED <<overflow_checks, ca, cb, points, Q, R, pres>>
    /\ UNCHANGED fvars

NextCurve ==
    \E x \in OptCoords(ca.prime), y \in OptCoords(ca.prime) : PNew(x, y)

SpecCurve == InitPoint /\ [][NextCurve]_vars

NextPoint ==
    \/ \E pt \in points : PLoadP(pt)
    \/ \E pt \in InRange(points) : PLoadQ(pt)
    \/ \E pt \in InRange(points) : PLoadR(pt)
    \/ PAdd
    \/ PCommute
    \/ PAssociate
    \/ PFeed

SpecPoint == InitPoint /\ [][NextPoint]_vars

\* A caller holding points of several curves over one prime field: every
\* point Point::new(..).unwrap() gives for coefficients a, b of that field.
\* It adds any two of them, in one order or in both.
AllCurvesPoints(p, oc) ==
    UNION {Constructed(FieldElement_new(an, p).val,
                       FieldElement_new(bn, p).val, oc) :
               an \in CurveCoefs(p), bn \in CurveCoefs(p)}

InitMixed ==
    /\ overflow_checks = TRUE
    /\ \E p \in PointPrimes :
          /\ ca = FieldElement_new(0, p).val
          /\ cb = FieldElement_new(0, p).val
    /\ points = InRange(AllCurvesPoints(ca.prime, overflow_checks))
    /\ P = Infinity(ca, cb)
    /\ Q = Infinity(ca, cb)
    /\ R = Infinity(ca, cb)
    /\ pop = "new"
    /\ pres = <<Point_new(None, None, ca, cb, overflow_checks)>>
    /\ lhs = FE(0, 2)
    /\ rhs = FE(0, 2)
    /\ fres = FieldElement_new(0, 2)
    /\ fop = "new"
    /\ fexp = 0
    /\ feeds = 0

NextMixed ==
    \/ \E pt \in points : PLoadP(pt)
    \/ \E pt \in points : PLoadQ(pt)
    \/ PAdd
    \/ PCommute

SpecMixed == InitMixed /\ [][NextMixed]_vars

\* ------------------------------------------------ arithmetic of Z/pZ
\* (the mathematics the properties below compare the code with; MulMod never
\* forms a product, so it stays within 32 bits for every modulus used here)
RECURSIVE MulMod(_, _, _)
MulMod(a, b, p) ==
    IF b = 0 THEN 0
    ELSE LET h == MulMod((2 * (a % p)) % p, b \div 2, p)
         IN IF b % 2 = 1 THEN (h + (a % p)) % p ELSE h

InField(e) == 0 <= e.num /\ e.num < e.prime

\* C1: every FieldElement an operation returns successfully has
\* 0 <= num < prime.
C1_ResidueInRange ==
    IsOk(fres) => InField(fres.val)

\* C2: add, subtract, multiply and divide on two FieldElements of different
\* moduli always return an error value (no Ok, no panic).
C2_MixedFieldsAreErrors ==
    (fop \in {"add", "sub", "mul", "div"} /\ lhs.prime /= rhs.prime)
        => fres.tag = "Err"

\* C3: dividing by the zero residue of the same field returns an error.
C3_DivisionByZeroIsError ==
    (fop = "div" /\ lhs.prime = rhs.prime /\ rhs.num = 0)
        => fres.tag = "Err"

\* C4: for in-range a, b of one prime field with b /= 0, a / b is Ok(c) with
\* 0 <= c.num < p and c.num * b.num congruent to a.num modulo p.
C4_DivisionIsFieldQuotient ==
    (/\ fop = "div"
     /\ lhs.prime = rhs.prime
     /\ InField(lhs)
     /\ InField(rhs)
     /\ rhs.num /= 0)
        => /\ IsOk(fres)
           /\ InField(fres.val)
           /\ MulMod(fres.val.num, rhs.num, lhs.prime) = lhs.num

\* v^(-1) in Z/pZ for v not divisible by the prime p
InvMod(v, p) == CHOOSE w \in 0..(p - 1) : (v * w) % p = 1

\* y^2 = x^3 + a*x + b in Z/pZ
OnCurveMath(x, y, a, b, p) == (y * y) % p = (x * x * x + a * x + b) % p

Finite(pt) == is_some(pt.x) /\ is_some(pt.y)

\* a point of the curve (ca, cb): the point at infinity, or in-range
\* coordinates that satisfy the curve equation
ValidPoint(pt) ==
    /\ pt.a = ca
    /\ pt.b = cb
    /\ is_some(pt.x) = is_some(pt.y)
    /\ Finite(pt) =>
          /\ pt.x[1].prime = ca.prime
          /\ pt.y[1].prime = ca.prime
          /\ InField(pt.x[1])
          /\ InField(pt.y[1])
          /\ OnCurveMath(pt.x[1].num, pt.y[1].num, ca.num, cb.num, ca.prime)

\* y^2 = x^3 + a*x + b is an elliptic curve over Z/pZ: p is odd and the
\* discriminant -16(4a^3 + 27b^2) does not vanish
NonSingular(a, b, p) ==
    /\ p /= 2
    /\ (4 * a * a * a + 27 * b * b) % p /= 0

FinitePt(xn, yn) ==
    Pt(ca, cb, Some(FE(xn % ca.prime, ca.prime)), Some(FE(yn % ca.prime, ca.prime)))

\* the chord through (x1, y1) and (x2, y2), x1 /= x2, meets the curve again
\* in the mirror image of this point
SecantSum(x1, y1, x2, y2, p) ==
    LET s == ((y2 - y1) * InvMod((x2 - x1) % p, p)) % p
        x3 == (s * s - x1 - x2) % p
        y3 == (s * (x1 - x3) - y1) % p
    IN <<x3, y3>>

\* the tangent at (x1, y1), 2*y1 /= 0, meets the curve again in the mirror
\* image of this point
TangentSum(x1, y1, a, p) ==
    LET s == ((3 * x1 * x1 + a) * InvMod((2 * y1) % p, p)) % p
        x3 == (s * s - 2 * x1) % p
        y3 == (s * (x1 - x3) - y1) % p
    IN <<x3, y3>>

\* C5: with both coordinates present, construction succeeds exactly when
\* y^2 = x^3 + a*x + b holds modulo the prime, and fails with the
\* not-on-curve error otherwise.
C5_ConstructionIffOnCurve ==
    pop = "new" =>
        LET r == pres[1]
            p == ca.prime
        IN /\ r.tag /= "Panic"
           /\ (IsOk(r) /\ Finite(r.val)
                 /\ InField(r.val.x[1]) /\ InField(r.val.y[1]))
                 => OnCurveMath(r.val.x[1].num, r.val.y[1].num,
                                ca.num, cb.num, p)
           /\ (r.tag = "Err" /\ r.val.x \in 0..(p - 1) /\ r.val.y \in 0..(p - 1))
                 => /\ r.val.msg = "is not on the curve"
                    /\ ~OnCurveMath(r.val.x, r.val.y, ca.num, cb.num, p)

\* C6: every Point returned successfully has both coordinates present or
\* both absent.
C6_CoordinatesBothOrNeither ==
    \A i \in DOMAIN pres :
        IsOk(pres[i]) => (is_some(pres[i].val.x) = is_some(pres[i].val.y))

\* C7: for a finite point P of an elliptic curve with y /= 0, P + P is Ok
\* with the point given by the tangent whose slope is the field quotient
\* (3*x1^2 + a)/(2*y1).  Stated for primes above 3, where field_power squares
\* and cubes every residue exactly.
C7_DoublingUsesFieldQuotient ==
    (/\ pop = "add"
     /\ P = Q
     /\ NonSingular(ca.num, cb.num, ca.prime)
     /\ ca.prime > 3
     /\ ValidPoint(P)
     /\ Finite(P)
     /\ P.y[1].num /= 0)
        => LET t == TangentSum(P.x[1].num, P.y[1].num, ca.num, ca.prime)
           IN /\ IsOk(pres[1])
              /\ pres[1].val = FinitePt(t[1], t[2])

\* C8: for points P, Q of an elliptic curve with distinct x, P + Q is Ok
\* with the point given by the chord of slope (y2 - y1)/(x2 - x1), and that
\* point is on the curve.
C8_SecantAddition ==
    (/\ pop = "add"
     /\ NonSingular(ca.num, cb.num, ca.prime)
     /\ ValidPoint(P)
     /\ ValidPoint(Q)
     /\ Finite(P)
     /\ Finite(Q)
     /\ P.x[1].num /= Q.x[1].num)
        => LET t == SecantSum(P.x[1].num, P.y[1].num,
                              Q.x[1].num, Q.y[1].num, ca.prime)
           IN /\ IsOk(pres[1])
              /\ pres[1].val = FinitePt(t[1], t[2])
              /\ OnCurveMath(t[1], t[2], ca.num, cb.num, ca.prime)

\* C9: for points P, Q, R of an elliptic curve, (P + Q) + R and P + (Q + R)
\* both succeed and are equal.  Stated for primes above 3, where field_power
\* squares and cubes every residue exactly.
C9_Associativity ==
    (/\ pop = "assoc"
     /\ NonSingular(ca.num, cb.num, ca.prime)
     /\ ca.prime > 3
     /\ ValidPoint(P)
     /\ ValidPoint(Q)
     /\ ValidPoint(R))
        => /\ IsOk(pres[1])
           /\ IsOk(pres[2])
           /\ pres[1].val = pres[2].val

\* C10: for points P, Q of an elliptic curve (finite or at infinity), P + Q
\* and Q + P both succeed with equal points.  Stated for primes above 3,
\* where field_power squares and cubes every residue exactly.
C10_Commutativity ==
    (/\ pop = "commute"
     /\ NonSingular(ca.num, cb.num, ca.prime)
     /\ ca.prime > 3
     /\ ValidPoint(P)
     /\ ValidPoint(Q))
        => /\ IsOk(pres[1])
           /\ IsOk(pres[2])
           /\ pres[1].val = pres[2].val

\* C11: for every valid point P of the curve and its point at infinity O,
\* P + O and O + P both return Ok(P), P = O included.
C11_IdentityLaw ==
    /\ (pop = "commute" /\ ValidPoint(P) /\ Q = Infinity(ca, cb))
          => pres = <<Ok(P), Ok(P)>>
    /\ (pop = "commute" /\ ValidPoint(Q) /\ P = Infinity(ca, cb))
          => pres = <<Ok(Q), Ok(Q)>>
    /\ (pop = "add" /\ ValidPoint(P) /\ Q = Infinity(ca, cb))
          => pres = <<Ok(P)>>
    /\ (pop = "add" /\ ValidPoint(Q) /\ P = Infinity(ca, cb))
          => pres = <<Ok(Q)>>

\* a finite point of the curve has been added to the point at infinity in
\* both orders
C11_FinitePlusInfinity ==
    /\ pop = "commute"
    /\ ValidPoint(P)
    /\ Finite(P)
    /\ Q = Infinity(ca, cb)
    /\ pres = <<Ok(P), Ok(P)>>

\* C12: adding two points whose curve coefficients a or b differ returns an
\* error value in every case, also when an operand is the point at infinity;
\* it never panics.
C12_CurveMismatchIsErrorValue ==
    (pop \in {"add", "commute"} /\ (P.a /= Q.a \/ P.b /= Q.b))
        => \A i \in DOMAIN pres : pres[i].tag = "Err"

\* a^e in Z/pZ by e multiplications (0^e = 0 for e >= 1)
RECURSIVE PowMod(_, _, _)
PowMod(a, e, p) ==
    IF e = 0 THEN 1 % p ELSE MulMod(PowMod(a, e - 1, p), a, p)

\* C13: for every prime p, every in-range element a (zero included) and
\* every exponent e >= 1, a.field_power(e) is Ok with residue a^e mod p.
C13_PowerIsExact ==
    (fop = "power" /\ InField(lhs) /\ fexp >= 1)
        => /\ IsOk(fres)
           /\ fres.val.num = PowMod(lhs.num, fexp, lhs.prime)

====
